---- MODULE Spec2Model ----
(***************************************************************************)
(* Model of the task_tracker application: the Employee and Task tables     *)
(* (task_tracker/models.py), the serializers' validation                    *)
(* (task_tracker/serializers.py) and the request handlers                   *)
(* (task_tracker/views.py).  One action is one HTTP request, handled        *)
(* atomically; `response` holds the answer to the last request.             *)
(*                                                                          *)
(* Representation.  A primary key is a positive integer; a date is its      *)
(* day ordinal (date.toordinal(), a positive integer), so date comparison   *)
(* is integer comparison; None is 0 for both.  A character string is a      *)
(* tuple of one-character strings.  A field of a request body is the empty  *)
(* tuple when the request omits it and <<v>> when it supplies v.            *)
(***************************************************************************)
EXTENDS Integers, Sequences, FiniteSets

VARIABLES
    employees,       \* the Employee table: primary key -> row
    tasks,           \* the Task table: primary key -> row
    nextEmployeeId,  \* the next primary key of the Employee table
    nextTaskId,      \* the next primary key of the Task table
    today,           \* datetime.date.today()
    request,         \* the last request: view, addressed primary key, body
    response,        \* its response: status code and data
    busy             \* the busy-employees request in progress, query by query

vars == <<employees, tasks, nextEmployeeId, nextTaskId, today, request, response, busy>>

db == <<employees, tasks, nextEmployeeId, nextTaskId>>

(***************************************************************************)
(* Bounds of the model.                                                     *)
(***************************************************************************)
MaxEmployees == 3
MaxTasks == 3
MaxDay == 3

(***************************************************************************)
(* Program constants.                                                       *)
(***************************************************************************)
None == 0

STATUS_CHOICES == {"new", "in_progress", "completed", "on_hold", "canceled", "overdue"}

ActiveStatuses == {"new", "in_progress"}

Letters == {"a", "b"}

Omitted == <<>>

Supplied(v) == <<v>>

StartDay == MaxDay - 1

(***************************************************************************)
(* Queryset enumeration: rows in ascending primary-key order.               *)
(***************************************************************************)
RECURSIVE Enumerate(_)
Enumerate(S) ==
    IF S = {} THEN <<>>
    ELSE LET m == CHOOSE x \in S : \A y \in S : x <= y
         IN <<m>> \o Enumerate(S \ {m})

SeqRange(s) == {s[i] : i \in 1..Len(s)}

(***************************************************************************)
(* EmployeeSerializer: the validate_<field> methods.  Each returns "" when  *)
(* the value passes and the identifier of the message it raises otherwise.  *)
(***************************************************************************)
isalpha(value) ==
    /\ Len(value) > 0
    /\ \A i \in 1..Len(value) : value[i] \in Letters

validate_first_name(value) ==
    IF ~isalpha(value) THEN "first_name_letters_only" ELSE ""

validate_last_name(value) ==
    IF ~isalpha(value) THEN "last_name_letters_only" ELSE ""

validate_middle_name_AllowBlank(value) ==
    IF Len(value) > 0 /\ ~isalpha(value) THEN "middle_name_letters_only" ELSE ""

validate_middle_name(value) ==
    IF ~isalpha(value) THEN "middle_name_letters_only" ELSE ""

validate_hired_date_TodayIsFuture(value) ==
    IF value >= today THEN "hired_date_in_future" ELSE ""

validate_hired_date(value) ==
    IF value > today THEN "hired_date_in_future" ELSE ""

(***************************************************************************)
(* Serializer.to_internal_value for one field: an omitted field is an       *)
(* error only when the model requires it and the request is not partial;    *)
(* a supplied field goes through its validate_<field> method.  The result   *)
(* is the set of <<field, message>> pairs of the 400 response.              *)
(***************************************************************************)
FieldErrors(field, input, required, partial, message) ==
    IF input = Omitted
    THEN IF required /\ ~partial THEN {<<field, "required">>} ELSE {}
    ELSE IF message # "" THEN {<<field, message>>} ELSE {}

EmployeeSerializerErrors(data, partial) ==
    FieldErrors("last_name", data.last_name, TRUE, partial,
                IF data.last_name = Omitted THEN ""
                ELSE validate_last_name(data.last_name[1]))
    \cup
    FieldErrors("first_name", data.first_name, TRUE, partial,
                IF data.first_name = Omitted THEN ""
                ELSE validate_first_name(data.first_name[1]))
    \cup
    FieldErrors("middle_name", data.middle_name, FALSE, partial,
                IF data.middle_name = Omitted THEN ""
                ELSE validate_middle_name(data.middle_name[1]))
    \cup
    FieldErrors("hired_date", data.hired_date, FALSE, partial,
                IF data.hired_date = Omitted THEN ""
                ELSE validate_hired_date(data.hired_date[1]))

(***************************************************************************)
(* Employee model: the row a create stores (an omitted nullable column is   *)
(* NULL) and the row an update leaves (only supplied fields are assigned).  *)
(***************************************************************************)
OrElse(input, default) == IF input = Omitted THEN default ELSE input[1]

NewEmployee(data) ==
    [last_name   |-> data.last_name[1],
     first_name  |-> data.first_name[1],
     middle_name |-> data.middle_name,
     hired_date  |-> OrElse(data.hired_date, None)]

UpdatedEmployee(row, data) ==
    [last_name   |-> OrElse(data.last_name, row.last_name),
     first_name  |-> OrElse(data.first_name, row.first_name),
     middle_name |-> IF data.middle_name = Omitted THEN row.middle_name
                     ELSE data.middle_name,
     hired_date  |-> OrElse(data.hired_date, row.hired_date)]

(***************************************************************************)
(* TaskSerializer (fields = '__all__') over the Task model: name and        *)
(* due_date are required, parent_task and assigned_to are nullable foreign  *)
(* keys that must name an existing row, status is one of STATUS_CHOICES.    *)
(***************************************************************************)
validate_due_date_TodayIsPast(value) ==
    IF value <= today THEN "due_date_in_past" ELSE ""

validate_due_date(value) ==
    IF value < today THEN "due_date_in_past" ELSE ""

ForeignKeyMessage_AnyKey(pk, table) == ""

ForeignKeyMessage(pk, table) ==
    IF pk = None \/ pk \in DOMAIN table THEN "" ELSE "does_not_exist"

ChoiceMessage_AnyString(value) == ""

ChoiceMessage(value) ==
    IF value \in STATUS_CHOICES THEN "" ELSE "invalid_choice"

TaskSerializerErrors(data, partial) ==
    FieldErrors("name", data.name, TRUE, partial, "")
    \cup
    FieldErrors("parent_task", data.parent_task, FALSE, partial,
                IF data.parent_task = Omitted THEN ""
                ELSE ForeignKeyMessage(data.parent_task[1], tasks))
    \cup
    FieldErrors("assigned_to", data.assigned_to, FALSE, partial,
                IF data.assigned_to = Omitted THEN ""
                ELSE ForeignKeyMessage(data.assigned_to[1], employees))
    \cup
    FieldErrors("due_date", data.due_date, TRUE, partial,
                IF data.due_date = Omitted THEN ""
                ELSE validate_due_date(data.due_date[1]))
    \cup
    FieldErrors("status", data.status, FALSE, partial,
                IF data.status = Omitted THEN ""
                ELSE ChoiceMessage(data.status[1]))

NewTask(data) ==
    [name        |-> data.name[1],
     parent_task |-> OrElse(data.parent_task, None),
     assigned_to |-> OrElse(data.assigned_to, None),
     due_date    |-> data.due_date[1],
     status      |-> OrElse(data.status, "new")]

UpdatedTask(row, data) ==
    [name        |-> OrElse(data.name, row.name),
     parent_task |-> OrElse(data.parent_task, row.parent_task),
     assigned_to |-> OrElse(data.assigned_to, row.assigned_to),
     due_date    |-> OrElse(data.due_date, row.due_date),
     status      |-> OrElse(data.status, row.status)]

(***************************************************************************)
(* on_delete=models.SET_NULL of Task.assigned_to and Task.parent_task: the  *)
(* Task table after the employee e, or the task t, is deleted.              *)
(***************************************************************************)
TasksAfterEmployeeDelete_Cascade(T, e) ==
    [t \in {u \in DOMAIN T : T[u].assigned_to # e} |-> T[t]]

TasksAfterEmployeeDelete(T, e) ==
    [t \in DOMAIN T |->
        IF T[t].assigned_to = e THEN [T[t] EXCEPT !.assigned_to = None]
        ELSE T[t]]

TasksAfterTaskDelete_Reattach(T, id) ==
    [t \in DOMAIN T \ {id} |->
        IF T[t].parent_task = id
        THEN [T[t] EXCEPT !.parent_task = IF T[id].parent_task = id THEN None
                                          ELSE T[id].parent_task]
        ELSE T[t]]

TasksAfterTaskDelete(T, id) ==
    [t \in DOMAIN T \ {id} |->
        IF T[t].parent_task = id THEN [T[t] EXCEPT !.parent_task = None]
        ELSE T[t]]

Remove(table, id) == [k \in DOMAIN table \ {id} |-> table[k]]

Put(table, id, row) ==
    [k \in DOMAIN table \cup {id} |-> IF k = id THEN row ELSE table[k]]

Request(view, pk, data) == [view |-> view, pk |-> pk, data |-> data]

Response(status, data) == [status |-> status, data |-> data]

(***************************************************************************)
(* BusyEmployeesListAPIView.get_queryset, over the tables E (employees)     *)
(* and T (tasks).                                                           *)
(***************************************************************************)
ActiveTasks(T, e) ==
    Enumerate({t \in DOMAIN T :
                 T[t].assigned_to = e /\ T[t].status \in ActiveStatuses})

RECURSIVE EarliestDueDate(_, _, _)
EarliestDueDate(T, active_tasks, earliest_due_date) ==
    IF active_tasks = <<>> THEN earliest_due_date
    ELSE LET task == T[Head(active_tasks)]
         IN EarliestDueDate(T, Tail(active_tasks),
                IF earliest_due_date = None \/ task.due_date < earliest_due_date
                THEN task.due_date ELSE earliest_due_date)

EmployeeTaskData(T, e) ==
    LET active_tasks == ActiveTasks(T, e)
    IN [employee          |-> e,
        tasks             |-> active_tasks,
        active_task_count |-> Len(active_tasks),
        earliest_due_date |-> EarliestDueDate(T, active_tasks, None)]

employee_task_data_ActiveOnly(E, T) ==
    LET es == Enumerate({e \in DOMAIN E : ActiveTasks(T, e) # <<>>})
    IN [i \in 1..Len(es) |-> EmployeeTaskData(T, es[i])]

employee_task_data(E, T) ==
    LET es == Enumerate(DOMAIN E)
    IN [i \in 1..Len(es) |-> EmployeeTaskData(T, es[i])]

(***************************************************************************)
(* The sort key (-count, earliest_due_date or '9999-12-31'): the second     *)
(* component is a date or the placeholder string.                           *)
(***************************************************************************)
SortKey_Ascending(x) ==
    [neg_count |-> x.active_task_count,
     due       |-> IF x.earliest_due_date # None
                   THEN [type |-> "date", value |-> x.earliest_due_date]
                   ELSE [type |-> "str", value |-> None]]

SortKey(x) ==
    [neg_count |-> 0 - x.active_task_count,
     due       |-> IF x.earliest_due_date # None
                   THEN [type |-> "date", value |-> x.earliest_due_date]
                   ELSE [type |-> "str", value |-> None]]

KeyLess_EqualIsLess(a, b) ==
    IF a.neg_count # b.neg_count
    THEN IF a.neg_count < b.neg_count THEN "lt" ELSE "ge"
    ELSE IF a.due.type # b.due.type THEN "TypeError"
    ELSE IF a.due.type = "date" /\ a.due.value > b.due.value THEN "ge"
    ELSE "lt"

(***************************************************************************)
(* Python's tuple comparison a < b on two keys: "lt", "ge", or "TypeError"  *)
(* when the first components are equal and a date meets the string.         *)
(***************************************************************************)
KeyLess(a, b) ==
    IF a.neg_count # b.neg_count
    THEN IF a.neg_count < b.neg_count THEN "lt" ELSE "ge"
    ELSE IF a.due.type # b.due.type THEN "TypeError"
    ELSE IF a.due.type = "date" /\ a.due.value < b.due.value THEN "lt"
    ELSE "ge"

(***************************************************************************)
(* sorted(): a stable insertion sort.  x is placed after the last element   *)
(* of s[1..j] that is not greater than it.                                  *)
(***************************************************************************)
RECURSIVE InsertSorted(_, _, _)
InsertSorted(s, x, j) ==
    IF j = 0 THEN [error |-> FALSE, list |-> <<x>> \o s]
    ELSE LET c == KeyLess(SortKey(x), SortKey(s[j]))
         IN IF c = "TypeError" THEN [error |-> TRUE, list |-> <<>>]
            ELSE IF c = "lt" THEN InsertSorted(s, x, j - 1)
            ELSE [error |-> FALSE,
                  list  |-> SubSeq(s, 1, j) \o <<x>> \o SubSeq(s, j + 1, Len(s))]

RECURSIVE SortedFrom(_, _)
SortedFrom(done, rest) ==
    IF done.error \/ rest = <<>> THEN done
    ELSE SortedFrom(InsertSorted(done.list, Head(rest), Len(done.list)), Tail(rest))

sorted_employee_data(E, T) ==
    SortedFrom([error |-> FALSE, list |-> <<>>], employee_task_data(E, T))

BusyEmployeesQueryset(E, T) ==
    LET r == sorted_employee_data(E, T)
    IN [error |-> r.error,
        list  |-> [i \in 1..Len(r.list) |-> r.list[i].employee]]

(***************************************************************************)
(* BusyEmployeeSerializer: the fields of one employee of the response that  *)
(* are computed from the Task table.                                        *)
(***************************************************************************)
BusyEmployeeSerializer(T, e) ==
    [id                |-> e,
     active_task_count |-> Len(ActiveTasks(T, e)),
     tasks             |-> ActiveTasks(T, e)]

BusyEmployeesList(E, T) ==
    LET qs == BusyEmployeesQueryset(E, T)
    IN IF qs.error THEN Response(500, <<>>)
       ELSE Response(200,
                [i \in 1..Len(qs.list) |-> BusyEmployeeSerializer(T, qs.list[i])])

(***************************************************************************)
(* ImportantTasksListAPIView.get_queryset: status = 'new' joined with a     *)
(* parent row whose status is 'in_progress'.                                *)
(***************************************************************************)
ImportantTasksFilter_AnyParent(T, t) ==
    /\ T[t].status = "new"
    /\ T[t].parent_task \in DOMAIN T

ImportantTasksFilter_IgnoresCompletion(T, t) ==
    /\ T[t].status \in {"new", "completed"}
    /\ T[t].parent_task # None
    /\ T[T[t].parent_task].status \in {"in_progress", "completed"}

ImportantTasksFilter(T, t) ==
    /\ T[t].status = "new"
    /\ T[t].parent_task \in DOMAIN T
    /\ T[T[t].parent_task].status = "in_progress"

ImportantTasksQueryset(T) ==
    Enumerate({t \in DOMAIN T : ImportantTasksFilter(T, t)})

(***************************************************************************)
(* ImportantTaskSerializer.get_potential_employees.                         *)
(***************************************************************************)
Digits == <<"0", "1", "2", "3", "4", "5", "6", "7", "8", "9">>

RECURSIVE str(_)
str(n) == IF n < 10 THEN <<Digits[n + 1]>>
          ELSE str(n \div 10) \o <<Digits[(n % 10) + 1]>>

RECURSIVE lstrip(_)
lstrip(s) == IF s # <<>> /\ Head(s) = " " THEN lstrip(Tail(s)) ELSE s

RECURSIVE rstrip(_)
rstrip(s) == IF s # <<>> /\ s[Len(s)] = " "
             THEN rstrip(SubSeq(s, 1, Len(s) - 1)) ELSE s

strip(s) == rstrip(lstrip(s))

employee_name_NoId(E, e) ==
    strip(E[e].last_name \o <<" ">> \o E[e].first_name \o <<" ">>
          \o (IF E[e].middle_name = <<>> THEN <<>> ELSE E[e].middle_name[1])
          \o <<".">>)

employee_name(E, e) ==
    strip(E[e].last_name \o <<" ">> \o E[e].first_name \o <<" ">>
          \o (IF E[e].middle_name = <<>> THEN <<>> ELSE E[e].middle_name[1])
          \o <<".", " ", "I", "D", ":">> \o str(e))

task_count_ActiveOnly(T, e) ==
    Cardinality({t \in DOMAIN T : T[t].assigned_to = e /\ T[t].status \in ActiveStatuses})

task_count(T, e) == Cardinality({t \in DOMAIN T : T[t].assigned_to = e})

min_task_count_OfFirst(T, es, m) == <<task_count(T, Head(es))>>

RECURSIVE min_task_count(_, _, _)
min_task_count(T, es, m) ==
    IF es = <<>> THEN m
    ELSE LET c == task_count(T, Head(es))
         IN min_task_count(T, Tail(es), IF m = <<>> \/ c < m[1] THEN <<c>> ELSE m)

parent_task_employee(T, task, e) ==
    \E t \in DOMAIN T : T[t].parent_task = task /\ T[t].assigned_to = e

IsSuitable(T, task, e, min) ==
    \/ task_count(T, e) = min
    \/ parent_task_employee(T, task, e) /\ task_count(T, e) <= min + 2

RECURSIVE suitable_employees(_, _, _, _, _, _)
suitable_employees(E, T, task, es, min, acc) ==
    IF es = <<>> THEN acc
    ELSE LET e == Head(es)
             name == employee_name(E, e)
         IN suitable_employees(E, T, task, Tail(es), min,
                IF IsSuitable(T, task, e, min) /\ name \notin SeqRange(acc)
                THEN Append(acc, name) ELSE acc)

get_potential_employees(E, T, task) ==
    LET es == Enumerate(DOMAIN E)
    IN IF es = <<>> THEN <<>>
       ELSE suitable_employees(E, T, task, es, min_task_count(T, es, <<>>)[1], <<>>)

ImportantTaskSerializer(E, T, t) ==
    [id |-> t, potential_employees |-> get_potential_employees(E, T, t)]

ImportantTasksList_OnlyStaffed(E, T) ==
    LET qs == Enumerate({t \in DOMAIN T :
                           /\ ImportantTasksFilter(T, t)
                           /\ get_potential_employees(E, T, t) # <<>>})
    IN Response(200,
            [i \in 1..Len(qs) |-> ImportantTaskSerializer(E, T, qs[i])])

ImportantTasksList(E, T) ==
    LET qs == ImportantTasksQueryset(T)
    IN Response(200,
            [i \in 1..Len(qs) |-> ImportantTaskSerializer(E, T, qs[i])])

(***************************************************************************)
(* The request handlers.  Each takes the set of request bodies the clients  *)
(* may send; an update also takes the primary keys they address and whether *)
(* it is partial (PATCH) or not (PUT).  A delete addresses every key the    *)
(* table may ever hold, present or not.                                     *)
(***************************************************************************)
EmployeeKeys == 1..MaxEmployees

TaskKeys == 1..MaxTasks

Answer(view, pk, data, status, out) ==
    /\ request' = Request(view, pk, data)
    /\ response' = Response(status, out)
    /\ UNCHANGED busy

EmployeeCreate(bodies) ==
    /\ nextEmployeeId <= MaxEmployees
    /\ \E data \in bodies :
         LET errors == EmployeeSerializerErrors(data, FALSE)
         IN IF errors # {}
            THEN /\ Answer("EmployeeCreate", None, data, 400, errors)
                 /\ UNCHANGED <<db, today>>
            ELSE /\ employees' = Put(employees, nextEmployeeId, NewEmployee(data))
                 /\ nextEmployeeId' = nextEmployeeId + 1
                 /\ Answer("EmployeeCreate", None, data, 201, nextEmployeeId)
                 /\ UNCHANGED <<tasks, nextTaskId, today>>

WithoutFields(data, fields) ==
    [f \in DOMAIN data |-> IF f \in fields THEN Omitted ELSE data[f]]

EmployeeUpdate_SavesValidFields(keys, bodies, partials) ==
    \E pk \in keys, data \in bodies, partial \in partials :
        IF pk \notin DOMAIN employees
        THEN /\ Answer("EmployeeUpdate", pk, data, 404, <<>>)
             /\ UNCHANGED <<db, today>>
        ELSE LET errors == EmployeeSerializerErrors(data, partial)
                 valid == WithoutFields(data, {x[1] : x \in errors})
             IN /\ employees' = Put(employees, pk, UpdatedEmployee(employees[pk], valid))
                /\ IF errors # {}
                   THEN Answer("EmployeeUpdate", pk, data, 400, errors)
                   ELSE Answer("EmployeeUpdate", pk, data, 200, pk)
                /\ UNCHANGED <<tasks, nextEmployeeId, nextTaskId, today>>

EmployeeUpdate(keys, bodies, partials) ==
    \E pk \in keys, data \in bodies, partial \in partials :
        IF pk \notin DOMAIN employees
        THEN /\ Answer("EmployeeUpdate", pk, data, 404, <<>>)
             /\ UNCHANGED <<db, today>>
        ELSE LET errors == EmployeeSerializerErrors(data, partial)
             IN IF errors # {}
                THEN /\ Answer("EmployeeUpdate", pk, data, 400, errors)
                     /\ UNCHANGED <<db, today>>
                ELSE /\ employees' = Put(employees, pk, UpdatedEmployee(employees[pk], data))
                     /\ Answer("EmployeeUpdate", pk, data, 200, pk)
                     /\ UNCHANGED <<tasks, nextEmployeeId, nextTaskId, today>>

EmployeeDestroy ==
    \E pk \in EmployeeKeys :
        IF pk \notin DOMAIN employees
        THEN /\ Answer("EmployeeDestroy", pk, <<>>, 404, <<>>)
             /\ UNCHANGED <<db, today>>
        ELSE /\ employees' = Remove(employees, pk)
             /\ tasks' = TasksAfterEmployeeDelete(tasks, pk)
             /\ Answer("EmployeeDestroy", pk, <<>>, 204, <<>>)
             /\ UNCHANGED <<nextEmployeeId, nextTaskId, today>>

TaskCreate(bodies) ==
    /\ nextTaskId <= MaxTasks
    /\ \E data \in bodies :
         LET errors == TaskSerializerErrors(data, FALSE)
         IN IF errors # {}
            THEN /\ Answer("TaskCreate", None, data, 400, errors)
                 /\ UNCHANGED <<db, today>>
            ELSE /\ tasks' = Put(tasks, nextTaskId, NewTask(data))
                 /\ nextTaskId' = nextTaskId + 1
                 /\ Answer("TaskCreate", None, data, 201, nextTaskId)
                 /\ UNCHANGED <<employees, nextEmployeeId, today>>

(***************************************************************************)
(* A task update that validates the stored due date when the request        *)
(* supplies none.                                                           *)
(***************************************************************************)
TaskUpdate_ValidatesStoredDueDate(keys, bodies, partials) ==
    \E pk \in keys, data \in bodies, partial \in partials :
        IF pk \notin DOMAIN tasks
        THEN /\ Answer("TaskUpdate", pk, data, 404, <<>>)
             /\ UNCHANGED <<db, today>>
        ELSE LET errors == TaskSerializerErrors(data, partial)
                           \cup (IF /\ data.due_date = Omitted
                                    /\ validate_due_date(tasks[pk].due_date) # ""
                                 THEN {<<"due_date", "due_date_in_past">>} ELSE {})
             IN IF errors # {}
                THEN /\ Answer("TaskUpdate", pk, data, 400, errors)
                     /\ UNCHANGED <<db, today>>
                ELSE /\ tasks' = Put(tasks, pk, UpdatedTask(tasks[pk], data))
                     /\ Answer("TaskUpdate", pk, data, 200, pk)
                     /\ UNCHANGED <<employees, nextEmployeeId, nextTaskId, today>>

(***************************************************************************)
(* A task update that refuses a parent from which following parent_task    *)
(* leads back to the task.                                                  *)
(***************************************************************************)
RECURSIVE LeadsTo(_, _, _, _)
LeadsTo(T, from, to, n) ==
    /\ from # None
    /\ from \in DOMAIN T
    /\ \/ from = to
       \/ n > 0 /\ LeadsTo(T, T[from].parent_task, to, n - 1)

TaskUpdate_RefusesCycle(keys, bodies, partials) ==
    \E pk \in keys, data \in bodies, partial \in partials :
        IF pk \notin DOMAIN tasks
        THEN /\ Answer("TaskUpdate", pk, data, 404, <<>>)
             /\ UNCHANGED <<db, today>>
        ELSE LET errors == TaskSerializerErrors(data, partial)
                           \cup (IF /\ data.parent_task # Omitted
                                    /\ LeadsTo(tasks, data.parent_task[1], pk,
                                               Cardinality(DOMAIN tasks))
                                 THEN {<<"parent_task", "cycle">>} ELSE {})
             IN IF errors # {}
                THEN /\ Answer("TaskUpdate", pk, data, 400, errors)
                     /\ UNCHANGED <<db, today>>
                ELSE /\ tasks' = Put(tasks, pk, UpdatedTask(tasks[pk], data))
                     /\ Answer("TaskUpdate", pk, data, 200, pk)
                     /\ UNCHANGED <<employees, nextEmployeeId, nextTaskId, today>>

TaskUpdate(keys, bodies, partials) ==
    \E pk \in keys, data \in bodies, partial \in partials :
        IF pk \notin DOMAIN tasks
        THEN /\ Answer("TaskUpdate", pk, data, 404, <<>>)
             /\ UNCHANGED <<db, today>>
        ELSE LET errors == TaskSerializerErrors(data, partial)
             IN IF errors # {}
                THEN /\ Answer("TaskUpdate", pk, data, 400, errors)
                     /\ UNCHANGED <<db, today>>
                ELSE /\ tasks' = Put(tasks, pk, UpdatedTask(tasks[pk], data))
                     /\ Answer("TaskUpdate", pk, data, 200, pk)
                     /\ UNCHANGED <<employees, nextEmployeeId, nextTaskId, today>>

TaskDestroy_Idempotent ==
    \E pk \in TaskKeys :
        /\ tasks' = IF pk \in DOMAIN tasks THEN TasksAfterTaskDelete(tasks, pk) ELSE tasks
        /\ Answer("TaskDestroy", pk, <<>>, 204, <<>>)
        /\ UNCHANGED <<employees, nextEmployeeId, nextTaskId, today>>

TaskDestroy ==
    \E pk \in TaskKeys :
        IF pk \notin DOMAIN tasks
        THEN /\ Answer("TaskDestroy", pk, <<>>, 404, <<>>)
             /\ UNCHANGED <<db, today>>
        ELSE /\ tasks' = TasksAfterTaskDelete(tasks, pk)
             /\ Answer("TaskDestroy", pk, <<>>, 204, <<>>)
             /\ UNCHANGED <<employees, nextEmployeeId, nextTaskId, today>>

(***************************************************************************)
(* RetrieveAPIView.get: get_object() raises Http404 for a primary key that  *)
(* is not in the table; else 200 with the row as serializer_class shows it. *)
(***************************************************************************)
EmployeeRetrieve ==
    /\ \E pk \in EmployeeKeys :
         IF pk \notin DOMAIN employees
         THEN Answer("EmployeeRetrieve", pk, <<>>, 404, <<>>)
         ELSE Answer("EmployeeRetrieve", pk, <<>>, 200, BusyEmployeeSerializer(tasks, pk))
    /\ UNCHANGED <<db, today>>

TaskRetrieve ==
    /\ \E pk \in TaskKeys :
         IF pk \notin DOMAIN tasks
         THEN Answer("TaskRetrieve", pk, <<>>, 404, <<>>)
         ELSE Answer("TaskRetrieve", pk, <<>>, 200, tasks[pk])
    /\ UNCHANGED <<db, today>>

(***************************************************************************)
(* A read handler that also writes: the busy-employees request marking the  *)
(* tasks that are past their due date.                                      *)
(***************************************************************************)
BusyEmployees_MarksOverdue ==
    /\ request' = Request("BusyEmployeesList", None, <<>>)
    /\ response' = BusyEmployeesList(employees, tasks)
    /\ tasks' = [t \in DOMAIN tasks |->
                    IF tasks[t].due_date < today /\ tasks[t].status \in ActiveStatuses
                    THEN [tasks[t] EXCEPT !.status = "overdue"]
                    ELSE tasks[t]]
    /\ UNCHANGED <<employees, nextEmployeeId, nextTaskId, today, busy>>

BusyEmployees ==
    /\ request' = Request("BusyEmployeesList", None, <<>>)
    /\ response' = BusyEmployeesList(employees, tasks)
    /\ UNCHANGED <<db, today, busy>>

ImportantTasks ==
    /\ request' = Request("ImportantTasksList", None, <<>>)
    /\ response' = ImportantTasksList(employees, tasks)
    /\ UNCHANGED <<db, today, busy>>

(***************************************************************************)
(* The calendar day changes between requests.                               *)
(***************************************************************************)
Midnight ==
    /\ today < MaxDay
    /\ today' = today + 1
    /\ UNCHANGED <<db, request, response, busy>>

(***************************************************************************)
(* The busy-employees request in progress: where it is (pc), the employees  *)
(* it loops over and the index of the next one, the count already queried   *)
(* for that employee (<<>> before the query), the employee_task_data and    *)
(* the serialized rows collected so far, and whether a write of another     *)
(* client was committed since the request began.  With no request in        *)
(* progress only pc and the flag of the last request remain.                *)
(***************************************************************************)
NoBusyRequest(overtaken) == [pc |-> "idle", overtaken |-> overtaken]

Init ==
    /\ employees = <<>>
    /\ tasks = <<>>
    /\ nextEmployeeId = 1
    /\ nextTaskId = 1
    /\ today = StartDay
    /\ request = Request("", None, <<>>)
    /\ response = Response(0, <<>>)
    /\ busy = NoBusyRequest(FALSE)

(***************************************************************************)
(* Request bodies.  Opt(S): a field that is omitted or supplies a member    *)
(* of S.                                                                    *)
(***************************************************************************)
Opt(S) == {Omitted} \cup {Supplied(v) : v \in S}

ValidName == <<"a">>

TaskName == <<"t">>

EmployeeBody(last_name, first_name, middle_name, hired_date) ==
    [last_name |-> last_name, first_name |-> first_name,
     middle_name |-> middle_name, hired_date |-> hired_date]

TaskBody(name, parent_task, assigned_to, due_date, status) ==
    [name |-> name, parent_task |-> parent_task, assigned_to |-> assigned_to,
     due_date |-> due_date, status |-> status]

(***************************************************************************)
(* Spec: the life cycle of employees and tasks.  Tasks are created with no  *)
(* parent or an existing one and with no assignee or an existing one, and   *)
(* employees and tasks are deleted, by any primary key.                     *)
(***************************************************************************)
CrudEmployeeBodies ==
    {EmployeeBody(Supplied(ValidName), Supplied(ValidName), Omitted, Omitted)}

CrudTaskBodies ==
    {TaskBody(Supplied(TaskName), p, a, Supplied(StartDay), Omitted) :
        p \in Opt(DOMAIN tasks), a \in Opt(DOMAIN employees)}

Next ==
    \/ EmployeeCreate(CrudEmployeeBodies)
    \/ EmployeeDestroy
    \/ TaskCreate(CrudTaskBodies)
    \/ TaskDestroy

Spec == Init /\ [][Next]_vars

(***************************************************************************)
(* C4: deleting an employee deletes no task: the Task table keeps the same  *)
(* rows, every task that was assigned to the deleted employee has           *)
(* assigned_to cleared and its other fields unchanged, and every other      *)
(* task is unchanged.                                                       *)
(***************************************************************************)
C4_EmployeeDeleteKeepsTasks ==
    [][(/\ request'.view = "EmployeeDestroy"
        /\ request'.pk \in DOMAIN employees
        /\ response'.status = 204)
       => /\ request'.pk \notin DOMAIN employees'
          /\ DOMAIN tasks' = DOMAIN tasks
          /\ Cardinality(DOMAIN tasks') = Cardinality(DOMAIN tasks)
          /\ \A t \in DOMAIN tasks :
                /\ tasks'[t].name = tasks[t].name
                /\ tasks'[t].parent_task = tasks[t].parent_task
                /\ tasks'[t].due_date = tasks[t].due_date
                /\ tasks'[t].status = tasks[t].status
                /\ tasks'[t].assigned_to =
                      IF tasks[t].assigned_to = request'.pk THEN None
                      ELSE tasks[t].assigned_to]_vars

C4_Witness ==
    /\ request.view = "EmployeeDestroy"
    /\ response.status = 204
    /\ request.pk \notin DOMAIN employees
    /\ DOMAIN employees # {}
    /\ \E t, u \in DOMAIN tasks :
          /\ tasks[t].assigned_to = None
          /\ tasks[t].parent_task # None
          /\ tasks[u].assigned_to \in DOMAIN employees

(***************************************************************************)
(* C5: deleting a task removes only that task: every former child is still  *)
(* present with parent_task cleared (not re-attached to the deleted task's  *)
(* own parent), and every other task is unchanged.                          *)
(***************************************************************************)
C5_TaskDeleteOrphansChildren ==
    [][(/\ request'.view = "TaskDestroy"
        /\ request'.pk \in DOMAIN tasks
        /\ response'.status = 204)
       => /\ DOMAIN tasks' = DOMAIN tasks \ {request'.pk}
          /\ employees' = employees
          /\ \A t \in DOMAIN tasks \ {request'.pk} :
                tasks'[t] =
                   IF tasks[t].parent_task = request'.pk
                   THEN [tasks[t] EXCEPT !.parent_task = None]
                   ELSE tasks[t]]_vars

C5_Witness ==
    /\ request.view = "TaskDestroy"
    /\ response.status = 204
    /\ request.pk = 2
    /\ DOMAIN tasks = {1, 3}
    /\ tasks[1].parent_task = None
    /\ tasks[3].parent_task = None

(***************************************************************************)
(* SpecRank: employees and tasks are created and the busy-employees list is *)
(* requested.  A task is assigned to nobody or to an existing employee and  *)
(* is new and due early, in progress and due late, or completed and due     *)
(* early.                                                                   *)
(***************************************************************************)
RankTaskBodies ==
    {TaskBody(Supplied(TaskName), Omitted, a, Supplied(k[1]), k[2]) :
        a \in Opt(DOMAIN employees),
        k \in {<<StartDay, Omitted>>,
               <<MaxDay, Supplied("in_progress")>>,
               <<StartDay, Supplied("completed")>>}}

NextRank ==
    \/ EmployeeCreate(CrudEmployeeBodies)
    \/ TaskCreate(RankTaskBodies)
    \/ BusyEmployees

SpecRank == Init /\ [][NextRank]_vars

(***************************************************************************)
(* What the claims say of an employee, stated over the tables directly.     *)
(***************************************************************************)
ActiveSet(e) ==
    {t \in DOMAIN tasks :
        tasks[t].assigned_to = e /\ tasks[t].status \in {"new", "in_progress"}}

ActiveCount(e) == Cardinality(ActiveSet(e))

HasEarlier(e, f) ==
    \E t \in ActiveSet(e) : \A u \in ActiveSet(f) : tasks[t].due_date < tasks[u].due_date

IsBusyResponse == request.view = "BusyEmployeesList"

(***************************************************************************)
(* C1: the busy-employees list is ordered by non-increasing active-task     *)
(* count and, among employees with equal count, by non-decreasing earliest  *)
(* due date of their active tasks, employees without an active task last.   *)
(***************************************************************************)
C1_BusyEmployeesOrdered ==
    IsBusyResponse =>
        /\ response.status = 200
        /\ \A i, j \in 1..Len(response.data) :
              i < j =>
                 LET e == response.data[i].id
                     f == response.data[j].id
                 IN /\ ActiveCount(e) >= ActiveCount(f)
                    /\ ActiveCount(e) = ActiveCount(f)
                          => /\ ~HasEarlier(f, e)
                             /\ ActiveSet(e) = {} => ActiveSet(f) = {}

C1_Witness ==
    /\ IsBusyResponse
    /\ response.status = 200
    /\ Len(response.data) >= 2
    /\ \E i \in 1..(Len(response.data) - 1) :
          LET e == response.data[i].id
              f == response.data[i + 1].id
          IN /\ e > f
             /\ ActiveCount(e) = ActiveCount(f)
             /\ ActiveCount(e) >= 1
             /\ HasEarlier(e, f)
    /\ \E i \in 1..(Len(response.data) - 1) :
          ActiveCount(response.data[i].id) > ActiveCount(response.data[i + 1].id)

(***************************************************************************)
(* C7: the busy-employees list holds every existing employee exactly once,  *)
(* each with its active-task count and its active tasks; an employee with   *)
(* no active task is listed with count 0 and an empty task list.            *)
(***************************************************************************)
C7_BusyEmployeesPermutation ==
    IsBusyResponse =>
        /\ response.status = 200
        /\ Len(response.data) = Cardinality(DOMAIN employees)
        /\ {response.data[i].id : i \in 1..Len(response.data)} = DOMAIN employees
        /\ \A i \in 1..Len(response.data) :
              LET e == response.data[i].id
              IN /\ response.data[i].active_task_count = ActiveCount(e)
                 /\ SeqRange(response.data[i].tasks) = ActiveSet(e)
                 /\ Len(response.data[i].tasks) = ActiveCount(e)
                 /\ ActiveSet(e) = {} =>
                       /\ response.data[i].active_task_count = 0
                       /\ response.data[i].tasks = <<>>

C7_Witness ==
    /\ IsBusyResponse
    /\ response.status = 200
    /\ Len(response.data) = MaxEmployees
    /\ \E i, j \in 1..Len(response.data) :
          /\ response.data[i].active_task_count = 0
          /\ response.data[i].tasks = <<>>
          /\ response.data[j].active_task_count >= 2
          /\ \E t \in DOMAIN tasks :
                /\ tasks[t].assigned_to = response.data[i].id
                /\ tasks[t].status = "completed"

(***************************************************************************)
(* SpecGate: employees and tasks are created and the important-tasks list   *)
(* is requested.  A task has no assignee or an existing one; it is new or   *)
(* in progress, with no parent or an existing one, or completed, with no    *)
(* parent.                                                                  *)
(***************************************************************************)
GateTaskBodies ==
    {TaskBody(Supplied(TaskName), p, a, Supplied(StartDay), st) :
        p \in Opt(DOMAIN tasks), a \in Opt(DOMAIN employees),
        st \in {Omitted, Supplied("in_progress")}}
    \cup
    {TaskBody(Supplied(TaskName), Omitted, a, Supplied(StartDay), Supplied("completed")) :
        a \in Opt(DOMAIN employees)}

NextGate ==
    \/ EmployeeCreate(CrudEmployeeBodies)
    \/ TaskCreate(GateTaskBodies)
    \/ ImportantTasks

SpecGate == Init /\ [][NextGate]_vars

IsImportantResponse == request.view = "ImportantTasksList"

Listed == {response.data[i].id : i \in 1..Len(response.data)}

(***************************************************************************)
(* C2: a task is in the important-tasks list if and only if its status is   *)
(* 'new' and it has a parent task whose status is 'in_progress'; a task     *)
(* without a parent is never listed.                                        *)
(***************************************************************************)
C2_ImportantIffNewUnderInProgress ==
    IsImportantResponse =>
        /\ response.status = 200
        /\ \A t \in DOMAIN tasks :
              t \in Listed <=>
                 /\ tasks[t].status = "new"
                 /\ tasks[t].parent_task # None
                 /\ tasks[tasks[t].parent_task].status = "in_progress"
        /\ Listed \subseteq DOMAIN tasks
        /\ Len(response.data) = Cardinality(Listed)

C2_Witness ==
    /\ IsImportantResponse
    /\ Cardinality(Listed) = 1
    /\ \E q \in Listed, r \in DOMAIN tasks \ Listed, u \in DOMAIN tasks \ Listed :
          /\ tasks[q].parent_task = u
          /\ tasks[u].status = "in_progress"
          /\ tasks[r].status = "new"
          /\ tasks[r].parent_task = None

(***************************************************************************)
(* What the claims say of eligibility, stated over the tables directly.     *)
(***************************************************************************)
TotalCount(e) == Cardinality({t \in DOMAIN tasks : tasks[t].assigned_to = e})

IsMinCount(e) == \A f \in DOMAIN employees : TotalCount(e) <= TotalCount(f)

WithinTwoOfMin(e) == \A f \in DOMAIN employees : TotalCount(e) <= TotalCount(f) + 2

WorksOnParentOf(e, t) ==
    /\ tasks[t].parent_task # None
    /\ tasks[tasks[t].parent_task].assigned_to = e

IsListedFor(e, i) ==
    employee_name(employees, e) \in SeqRange(response.data[i].potential_employees)

(***************************************************************************)
(* C3: an employee is in the potential_employees of an important task if    *)
(* and only if the employee's total task count is the minimum over all      *)
(* employees, or the employee is assigned to the important task's parent    *)
(* and the count is at most the minimum plus 2.                             *)
(***************************************************************************)
C3_EligibleIffMinOrOnParent ==
    IsImportantResponse =>
        \A i \in 1..Len(response.data) : \A e \in DOMAIN employees :
            IsListedFor(e, i) <=>
               \/ IsMinCount(e)
               \/ WorksOnParentOf(e, response.data[i].id) /\ WithinTwoOfMin(e)

ValidatedKeys == {1}

ValDays == {StartDay - 1, StartDay, MaxDay}

ValEmployeeBodies ==
    {EmployeeBody(l, f, m, h) :
        l \in Opt({ValidName, <<"a", "1">>}),
        f \in {Supplied(ValidName), Supplied(<<>>)},
        m \in Opt({<<"b">>, <<"1">>, <<>>}),
        h \in Opt(ValDays)}

NextEmployeeValidation ==
    \/ (nextEmployeeId \in ValidatedKeys /\ EmployeeCreate(ValEmployeeBodies))
    \/ EmployeeUpdate(ValidatedKeys, ValEmployeeBodies, BOOLEAN)
    \/ Midnight

SpecEmployeeValidation == Init /\ [][NextEmployeeValidation]_vars

(***************************************************************************)
(* SpecTaskValidation: the first task is created and updated (PUT and       *)
(* PATCH) with the same dates, with and without a name and a status, while  *)
(* the calendar advances.                                                   *)
(***************************************************************************)
ValTaskBodies ==
    {TaskBody(n, Omitted, Omitted, d, st) :
        n \in Opt({TaskName}), d \in Opt(ValDays),
        st \in Opt({"in_progress", "archived"})}

NextTaskValidation ==
    \/ (nextTaskId \in ValidatedKeys /\ TaskCreate(ValTaskBodies))
    \/ TaskUpdate(ValidatedKeys, ValTaskBodies, BOOLEAN)
    \/ Midnight

SpecTaskValidation == Init /\ [][NextTaskValidation]_vars

(***************************************************************************)
(* A step that handles a create or an update of the given views and gets    *)
(* past the lookup of the addressed row.                                    *)
(***************************************************************************)
Handles(views) ==
    /\ today' = today
    /\ request'.view \in views
    /\ response'.status # 404

Rejected(field) ==
    /\ response'.status = 400
    /\ \E x \in response'.data : x[1] = field
    /\ UNCHANGED db

NoErrorOn(field) ==
    response'.status = 400 => \A x \in response'.data : x[1] # field

Stored(table, field, value) ==
    response'.status \in {200, 201} => table[response'.data][field] = value

AllLetters(v) == v # <<>> /\ \A i \in 1..Len(v) : v[i] \in {"a", "b"}

(***************************************************************************)
(* C8: a task create or update that supplies a due date earlier than the    *)
(* current day is rejected with a due_date error and changes nothing; one   *)
(* that supplies the current day or a later one gets no due_date error and, *)
(* when the request succeeds, stores that date.                             *)
(***************************************************************************)
C8_PastDueDateRejected ==
    [][(Handles({"TaskCreate", "TaskUpdate"}) /\ request'.data.due_date # Omitted)
       => LET d == request'.data.due_date[1]
          IN /\ d < today => Rejected("due_date")
             /\ d >= today => /\ NoErrorOn("due_date")
                              /\ Stored(tasks', "due_date", d)]_vars

C8_Witness ==
    /\ request.view = "TaskUpdate"
    /\ request.pk \in DOMAIN tasks
    /\ request.data.due_date = Supplied(today - 1)
    /\ request.data.name # Omitted
    /\ request.data.status = Supplied("in_progress")
    /\ response.status = 400
    /\ response.data = {<<"due_date", "due_date_in_past">>}
    /\ tasks[request.pk].due_date = today
    /\ tasks[request.pk].status = "new"

C10_FutureHireDateRejected ==
    [][(Handles({"EmployeeCreate", "EmployeeUpdate"}) /\ request'.data.hired_date # Omitted)
       => LET d == request'.data.hired_date[1]
          IN /\ d > today => Rejected("hired_date")
             /\ d <= today => /\ NoErrorOn("hired_date")
                              /\ Stored(employees', "hired_date", d)]_vars

C10_Witness ==
    /\ request.view = "EmployeeCreate"
    /\ request.data.last_name = Supplied(ValidName)
    /\ request.data.first_name = Supplied(ValidName)
    /\ request.data.middle_name = Omitted
    /\ request.data.hired_date = Supplied(today + 1)
    /\ response.status = 400
    /\ response.data = {<<"hired_date", "hired_date_in_future">>}
    /\ employees = <<>>

(***************************************************************************)
(* SpecValidation: the first employee and the first task are created and    *)
(* updated (PUT and PATCH) with bodies in which each field is valid or      *)
(* invalid independently of the others, while the calendar advances.        *)
(***************************************************************************)
MixedEmployeeBodies ==
    {EmployeeBody(l, Supplied(ValidName), m, h) :
        l \in {Supplied(ValidName), Supplied(<<"a", "1">>)},
        m \in Opt({<<"b">>, <<"1">>}),
        h \in Opt(ValDays)}

NextValidation ==
    \/ (nextEmployeeId \in ValidatedKeys /\ EmployeeCreate(MixedEmployeeBodies))
    \/ EmployeeUpdate(ValidatedKeys, MixedEmployeeBodies, BOOLEAN)
    \/ (nextTaskId \in ValidatedKeys /\ TaskCreate(ValTaskBodies))
    \/ TaskUpdate(ValidatedKeys, ValTaskBodies, BOOLEAN)
    \/ Midnight

SpecValidation == Init /\ [][NextValidation]_vars

(***************************************************************************)
(* A request body with at least one supplied field that fails validation:   *)
(* a name that is not letters only, a hire date after the current day, a    *)
(* due date before the current day.                                         *)
(***************************************************************************)
FailsValidation(view, data) ==
    IF view \in {"EmployeeCreate", "EmployeeUpdate"}
    THEN \/ \E field \in {"first_name", "last_name", "middle_name"} :
               data[field] # Omitted /\ ~AllLetters(data[field][1])
         \/ data.hired_date # Omitted /\ data.hired_date[1] > today
    ELSE data.due_date # Omitted /\ data.due_date[1] < today

(***************************************************************************)
(* C11: a create or update request in which at least one supplied field     *)
(* fails validation is answered 400 or 404 and leaves both tables, every    *)
(* field of every row, exactly as before, also when its other fields are    *)
(* valid.                                                                   *)
(***************************************************************************)
C11_NoPartialWrite ==
    [][(/\ today' = today
        /\ request'.view \in {"EmployeeCreate", "EmployeeUpdate", "TaskCreate", "TaskUpdate"}
        /\ FailsValidation(request'.view, request'.data))
       => /\ response'.status \in {400, 404}
          /\ employees' = employees
          /\ tasks' = tasks
          /\ nextEmployeeId' = nextEmployeeId
          /\ nextTaskId' = nextTaskId]_vars

C11_Witness ==
    /\ request.view = "EmployeeUpdate"
    /\ request.pk \in DOMAIN employees
    /\ request.data.last_name = Supplied(<<"a", "1">>)
    /\ request.data.middle_name = Supplied(<<"b">>)
    /\ request.data.hired_date = Supplied(today)
    /\ response.status = 400
    /\ response.data = {<<"last_name", "last_name_letters_only">>}
    /\ employees[request.pk].middle_name = <<>>
    /\ employees[request.pk].hired_date = None
    /\ DOMAIN tasks # {}

(***************************************************************************)
(* List requests.  The query string is a record of parameters, each         *)
(* omitted or supplied like a field of a request body; keys(query) is       *)
(* request.query_params.keys().  A queryset is the sequence of primary      *)
(* keys of the rows it yields.                                              *)
(***************************************************************************)
keys(query) == {f \in DOMAIN query : query[f] # Omitted}

EmployeeFilterFields == {"position", "department", "hired_date"}

TaskFilterFields == {"assigned_to", "status", "parent_task", "due_date"}

(***************************************************************************)
(* DjangoFilterBackend.filter_queryset with filterset_fields: an equality   *)
(* filter for every supplied parameter that is one of the filterset's       *)
(* fields; a parameter the filterset does not declare is not looked at.     *)
(***************************************************************************)
filter_queryset(table, queryset, query, filterset_fields) ==
    SelectSeq(queryset,
              LAMBDA pk : \A f \in keys(query) \cap filterset_fields :
                              table[pk][f] = query[f][1])

(***************************************************************************)
(* TaskListAPIView.get_queryset.  The parameters other than subtasks and    *)
(* has_parent that are not filterset fields raise a ValidationError.        *)
(***************************************************************************)
invalid_filters_OnlyWhenAlone(query, allowed_filters) ==
    IF keys(query) \cap allowed_filters # {}
    THEN {}
    ELSE (keys(query) \ {"subtasks", "has_parent"}) \ allowed_filters

invalid_filters(query, allowed_filters) ==
    (keys(query) \ {"subtasks", "has_parent"}) \ allowed_filters

lower(s) ==
    CASE s = "True" -> "true"
      [] s = "FALSE" -> "false"
      [] OTHER -> s

Subtasks(T, pk) == {c \in DOMAIN T : T[c].parent_task = pk}

(***************************************************************************)
(* filter(subtasks__isnull=False) joins each task with its subtasks: one    *)
(* row per subtask.  filter(subtasks__isnull=True) keeps the rows of the    *)
(* outer join that have no subtask.  distinct() keeps one row per task,     *)
(* in the queryset's order_by('id').                                        *)
(***************************************************************************)
RECURSIVE SubtasksNotNull(_, _)
SubtasksNotNull(T, queryset) ==
    IF queryset = <<>> THEN <<>>
    ELSE LET pk == Head(queryset)
             n  == Cardinality(Subtasks(T, pk))
         IN (IF n = 0 THEN <<>> ELSE [i \in 1..n |-> pk])
            \o SubtasksNotNull(T, Tail(queryset))

SubtasksIsNull(T, queryset) ==
    SelectSeq(queryset, LAMBDA pk : Subtasks(T, pk) = {})

distinct_KeepsDuplicates(queryset) == queryset

distinct(queryset) == Enumerate(SeqRange(queryset))

SubtasksFilter(T, queryset, query) ==
    IF query.subtasks = Omitted THEN queryset
    ELSE IF lower(query.subtasks[1]) \in {"true", "1"}
         THEN distinct(SubtasksNotNull(T, queryset))
         ELSE IF lower(query.subtasks[1]) \in {"false", "0"}
              THEN distinct(SubtasksIsNull(T, queryset))
              ELSE queryset

HasParentFilter(T, queryset, query) ==
    IF query.has_parent = Omitted THEN queryset
    ELSE IF lower(query.has_parent[1]) \in {"true", "1"}
         THEN SelectSeq(queryset, LAMBDA pk : T[pk].parent_task # None)
         ELSE IF lower(query.has_parent[1]) \in {"false", "0"}
              THEN SelectSeq(queryset, LAMBDA pk : T[pk].parent_task = None)
              ELSE queryset

TaskListQueryset(T, query) ==
    HasParentFilter(T, SubtasksFilter(T, Enumerate(DOMAIN T), query), query)

(***************************************************************************)
(* GET of the task list: 400 with the invalid and the allowed fields when   *)
(* get_queryset raises, else 200 with the filtered queryset.                *)
(***************************************************************************)
TaskList(queries) ==
    /\ \E query \in queries :
         LET invalid == invalid_filters(query, TaskFilterFields)
         IN IF invalid # {}
            THEN Answer("TaskList", None, query, 400,
                        [invalid |-> invalid, allowed |-> TaskFilterFields])
            ELSE Answer("TaskList", None, query, 200,
                        filter_queryset(tasks, TaskListQueryset(tasks, query),
                                        query, TaskFilterFields))
    /\ UNCHANGED <<db, today>>

(***************************************************************************)
(* GET of the employee list: the generic list view over                     *)
(* Employee.objects.all() with the filter backend alone.                    *)
(***************************************************************************)
EmployeeList(queries) ==
    /\ \E query \in queries :
         Answer("EmployeeList", None, query, 200,
                filter_queryset(employees, Enumerate(DOMAIN employees),
                                query, EmployeeFilterFields))
    /\ UNCHANGED <<db, today>>

(***************************************************************************)
(* SpecList: employees are created, the first without a hire date and the   *)
(* others with one, tasks are created with                                  *)
(* no parent or an existing one, and both lists are requested with allowed  *)
(* filters (hired_date; parent_task naming an existing task), with a        *)
(* parameter that is a column but not a filter (last_name; name), and with  *)
(* the subtasks and has_parent parameters of the task list in every         *)
(* spelling of Flags.                                                       *)
(***************************************************************************)
ListEmployeeBodies ==
    {EmployeeBody(Supplied(ValidName), Supplied(ValidName), Omitted, h) :
        h \in IF nextEmployeeId = 1 THEN {Omitted} ELSE {Supplied(StartDay)}}

ListTaskBodies ==
    {TaskBody(Supplied(TaskName), p, Omitted, Supplied(StartDay), Omitted) :
        p \in Opt(DOMAIN tasks)}

EmployeeQueries ==
    {[hired_date |-> h, last_name |-> l] :
        h \in Opt({StartDay}), l \in Opt({ValidName})}

Flags == {"true", "1", "false", "0", "True", "yes"}

FilterQueries ==
    {[parent_task |-> p, name |-> n, subtasks |-> s, has_parent |-> h] :
        p \in Opt(DOMAIN tasks \cap {1}), n \in Opt({TaskName}),
        s \in Opt({"true"}), h \in Opt({"true"})}

SubtreeQueries ==
    {[parent_task |-> Omitted, name |-> Omitted, subtasks |-> s, has_parent |-> h] :
        s \in Opt(Flags), h \in Opt(Flags)}

TaskQueries == FilterQueries \cup SubtreeQueries

NextList ==
    \/ EmployeeCreate(ListEmployeeBodies)
    \/ TaskCreate(ListTaskBodies)
    \/ EmployeeList(EmployeeQueries)
    \/ TaskList(TaskQueries)

SpecList == Init /\ [][NextList]_vars

(***************************************************************************)
(* The filter fields a list request names outside its endpoint's            *)
(* allow-list.                                                              *)
(***************************************************************************)
AllowList(view) ==
    IF view = "EmployeeList" THEN EmployeeFilterFields ELSE TaskFilterFields

Offending(view, query) ==
    (keys(query) \ (IF view = "TaskList" THEN {"subtasks", "has_parent"} ELSE {}))
    \ AllowList(view)

RejectedNaming(offending, allowed) ==
    /\ response.status = 400
    /\ response.data = [invalid |-> offending, allowed |-> allowed]

(***************************************************************************)
(* C12 as stated: on the employee list and on the task list, a query that   *)
(* names a filter field outside the endpoint's allow-list is answered 400   *)
(* with the offending fields and the allowed fields, and no list.           *)
(***************************************************************************)
C12_BothListsRejectUnknownFilter ==
    (/\ request.view \in {"EmployeeList", "TaskList"}
     /\ Offending(request.view, request.data) # {})
    => RejectedNaming(Offending(request.view, request.data),
                      AllowList(request.view))

(***************************************************************************)
(* C12 amended: on the task list, a query that names a filter field         *)
(* outside the allow-list is answered 400 with the offending fields and     *)
(* the allowed fields, and no list, also when allowed filters are present;  *)
(* the employee list is always answered 200 with the employees that match   *)
(* the allowed filters of the query, its other parameters being ignored.    *)
(***************************************************************************)
C12_TaskListRejectsUnknownFilter ==
    /\ (/\ request.view = "TaskList"
        /\ Offending("TaskList", request.data) # {})
       => RejectedNaming(Offending("TaskList", request.data), TaskFilterFields)
    /\ request.view = "EmployeeList"
       => /\ response.status = 200
          /\ SeqRange(response.data)
               = {e \in DOMAIN employees :
                    request.data.hired_date # Omitted
                    => employees[e].hired_date = request.data.hired_date[1]}

C12_Witness ==
    /\ request.view = "TaskList"
    /\ request.data.name # Omitted
    /\ request.data.parent_task = Supplied(1)
    /\ request.data.has_parent = Supplied("true")
    /\ response.status = 400
    /\ response.data.invalid = {"name"}
    /\ \E t \in DOMAIN tasks : tasks[t].parent_task = 1

(***************************************************************************)
(* What a subtree parameter asks of a task: nothing when it is omitted,     *)
(* the property when it is true or 1, its negation when it is false or 0.   *)
(***************************************************************************)
HasChild(t) == \E c \in DOMAIN tasks : tasks[c].parent_task = t

HasParent(t) == tasks[t].parent_task # None

Asks(param, property) ==
    \/ param = Omitted
    \/ param[1] \in {"true", "1"} /\ property
    \/ param[1] \in {"false", "0"} /\ ~property

(***************************************************************************)
(* C13: a task list answered for subtasks and has_parent parameters that    *)
(* are omitted or one of true, 1, false, 0 holds each task at most once     *)
(* and holds exactly the tasks that have a child (subtasks true/1) or have  *)
(* none (false/0) and whose parent_task is set (has_parent true/1) or null  *)
(* (false/0), among those the equality filters keep: with both parameters   *)
(* the intersection.                                                        *)
(***************************************************************************)
C13_SubtreeFilters ==
    (/\ request.view = "TaskList"
     /\ response.status = 200
     /\ request.data.subtasks \in Opt({"true", "1", "false", "0"})
     /\ request.data.has_parent \in Opt({"true", "1", "false", "0"}))
    => /\ \A i, j \in DOMAIN response.data :
            response.data[i] = response.data[j] => i = j
       /\ SeqRange(response.data)
            = {t \in DOMAIN tasks :
                 /\ Asks(request.data.subtasks, HasChild(t))
                 /\ Asks(request.data.has_parent, HasParent(t))
                 /\ request.data.parent_task # Omitted
                    => tasks[t].parent_task = request.data.parent_task[1]}

C13_Witness ==
    /\ request.view = "TaskList"
    /\ request.data.subtasks = Supplied("1")
    /\ request.data.has_parent = Supplied("true")
    /\ DOMAIN tasks = {1, 2, 3}
    /\ tasks[2].parent_task = 1
    /\ tasks[3].parent_task = 2
    /\ response = Response(200, <<2>>)

(***************************************************************************)
(* SpecDerived: employees and tasks are created, both derived lists are     *)
(* requested and the calendar advances.  A task is assigned to nobody or    *)
(* to one of the first two employees; it is new with no parent or under     *)
(* the first task, or completed, and the first task may be in progress.     *)
(***************************************************************************)
Assignable == {1, 2}

DerivedTaskBodies ==
    {TaskBody(Supplied(TaskName), k[1], a, Supplied(StartDay), k[2]) :
        a \in Opt(DOMAIN employees \cap Assignable),
        k \in ({<<p, Omitted>> : p \in Opt(DOMAIN tasks \cap {1})}
               \cup {<<Omitted, Supplied("completed")>>}
               \cup (IF nextTaskId = 1
                     THEN {<<Omitted, Supplied("in_progress")>>} ELSE {}))}

NextDerived ==
    \/ EmployeeCreate(CrudEmployeeBodies)
    \/ TaskCreate(DerivedTaskBodies)
    \/ BusyEmployees
    \/ ImportantTasks
    \/ Midnight

SpecDerived == Init /\ [][NextDerived]_vars

DerivedViews == {"BusyEmployeesList", "ImportantTasksList"}

DetailTaskBodies ==
    {TaskBody(Supplied(TaskName), Omitted, Omitted, Supplied(StartDay), st) :
        st \in Opt({"archived"})}

DetailTaskPatches ==
    {TaskBody(Omitted, Omitted, Omitted, Omitted, Supplied(st)) :
        st \in {"completed", "archived"}}

NextDetail ==
    \/ EmployeeCreate(CrudEmployeeBodies)
    \/ EmployeeRetrieve
    \/ EmployeeUpdate(EmployeeKeys, CrudEmployeeBodies, {FALSE})
    \/ EmployeeDestroy
    \/ TaskCreate(DetailTaskBodies)
    \/ TaskRetrieve
    \/ TaskUpdate(TaskKeys, DetailTaskPatches, {TRUE})
    \/ TaskDestroy

SpecDetail == Init /\ [][NextDetail]_vars

EmployeeDetailViews == {"EmployeeRetrieve", "EmployeeUpdate", "EmployeeDestroy"}

TaskDetailViews == {"TaskRetrieve", "TaskUpdate", "TaskDestroy"}

(***************************************************************************)
(* C15: a retrieve, update or delete request whose primary key no row of    *)
(* its table has, never created or already deleted, is answered 404 and     *)
(* leaves both tables and both key counters unchanged; a delete request     *)
(* repeated right after it was answered 204 is answered 404.                *)
(***************************************************************************)
C15_MissingIdentityNotFound ==
    [][/\ (\/ request'.view \in EmployeeDetailViews /\ request'.pk \notin DOMAIN employees
           \/ request'.view \in TaskDetailViews /\ request'.pk \notin DOMAIN tasks)
          => /\ response'.status = 404
             /\ db' = db
       /\ (/\ request.view \in {"EmployeeDestroy", "TaskDestroy"}
           /\ response.status = 204
           /\ request' = request)
          => response'.status = 404]_vars

C15_Witness ==
    /\ request.view = "TaskDestroy"
    /\ response.status = 404
    /\ request.pk < nextTaskId
    /\ request.pk \notin DOMAIN tasks
    /\ \E e \in EmployeeKeys : e < nextEmployeeId /\ e \notin DOMAIN employees
    /\ DOMAIN tasks # {}
    /\ DOMAIN employees # {}

(***************************************************************************)
(* C16: after every request the status of every task in the table is one    *)
(* of STATUS_CHOICES; a create that omits status and succeeds stores        *)
(* 'new'; a create or update that supplies a status outside STATUS_CHOICES  *)
(* is answered 400 (404 for a missing row) and changes nothing.             *)
(***************************************************************************)
C16_StatusStaysInChoices ==
    [][/\ \A t \in DOMAIN tasks' : tasks'[t].status \in STATUS_CHOICES
       /\ (/\ request'.view = "TaskCreate"
           /\ response'.status = 201
           /\ request'.data.status = Omitted)
          => /\ response'.data \notin DOMAIN tasks
             /\ response'.data \in DOMAIN tasks'
             /\ tasks'[response'.data].status = "new"
       /\ (/\ request'.view \in {"TaskCreate", "TaskUpdate"}
           /\ request'.data.status # Omitted
           /\ request'.data.status[1] \notin STATUS_CHOICES)
          => /\ response'.status \in {400, 404}
             /\ db' = db]_vars

C16_Witness ==
    /\ request.view = "TaskUpdate"
    /\ request.data.status = Supplied("archived")
    /\ response.status = 400
    /\ <<"status", "invalid_choice">> \in response.data
    /\ request.pk \in DOMAIN tasks
    /\ tasks[request.pk].status = "completed"
    /\ \E t \in DOMAIN tasks : tasks[t].status = "new"

(***************************************************************************)
(* C17: the busy-employees list gives each employee the number of tasks     *)
(* assigned to the employee whose status is new or in_progress, while the   *)
(* important-tasks list compares the number of all tasks assigned to the    *)
(* employee, whatever their status: every employee whose total is the       *)
(* minimum of the totals is a potential employee of every important task,   *)
(* no employee whose total exceeds the minimum by more than 2 is one, and   *)
(* an employee assigned neither to the task's parent nor to one of its      *)
(* subtasks is one only with the minimum total.  A task with no assignee    *)
(* is in neither count of any employee.                                     *)
(***************************************************************************)
C17_DifferentWorkloadCounts ==
    /\ (IsBusyResponse /\ response.status = 200)
       => \A i \in DOMAIN response.data :
             response.data[i].active_task_count
                = Cardinality({t \in DOMAIN tasks :
                                 /\ tasks[t].assigned_to = response.data[i].id
                                 /\ tasks[t].status \in {"new", "in_progress"}})
    /\ IsImportantResponse
       => \A i \in DOMAIN response.data : \A e \in DOMAIN employees :
             /\ IsMinCount(e) => IsListedFor(e, i)
             /\ IsListedFor(e, i) => WithinTwoOfMin(e)
             /\ (IsListedFor(e, i) /\ ~WorksOnParentOf(e, response.data[i].id)
                                   /\ \A c \in DOMAIN tasks :
                                         tasks[c].parent_task = response.data[i].id
                                         => tasks[c].assigned_to # e)
                => IsMinCount(e)

C17_Witness ==
    /\ IsImportantResponse
    /\ Len(response.data) >= 1
    /\ \E e, f \in DOMAIN employees :
          /\ ActiveCount(e) = 0
          /\ TotalCount(e) = 1
          /\ TotalCount(f) = 0
          /\ \E t \in DOMAIN tasks : tasks[t].assigned_to = None
          /\ \A i \in DOMAIN response.data :
                IsListedFor(f, i) /\ ~IsListedFor(e, i)

(***************************************************************************)
(* SpecRecompute: employees and tasks are created, tasks are patched to     *)
(* 'completed' and deleted, and both derived lists are requested.  A task   *)
(* is created new or in progress, never completed; it is assigned to the    *)
(* first employee and put under the first task when they exist.             *)
(***************************************************************************)
RecomputeTaskBodies ==
    {TaskBody(Supplied(TaskName), p, a, Supplied(StartDay), st) :
        p \in IF 1 \in DOMAIN tasks THEN {Supplied(1)} ELSE {Omitted},
        a \in IF 1 \in DOMAIN employees THEN {Supplied(1)} ELSE {Omitted},
        st \in Opt({"in_progress"})}

RecomputeTaskPatches ==
    {TaskBody(Omitted, Omitted, Omitted, Omitted, Supplied("completed"))}

NextRecompute ==
    \/ EmployeeCreate(CrudEmployeeBodies)
    \/ TaskCreate(RecomputeTaskBodies)
    \/ TaskUpdate(TaskKeys, RecomputeTaskPatches, {TRUE})
    \/ TaskDestroy
    \/ BusyEmployees
    \/ ImportantTasks

SpecRecompute == Init /\ [][NextRecompute]_vars

(***************************************************************************)
(* C18: each derived list is computed from the tables as they are when it   *)
(* is requested.  A task whose status is no longer 'new', or whose parent   *)
(* is no longer 'in_progress' or no longer exists, is not in the            *)
(* important-tasks list; when the Task table is empty the busy-employees    *)
(* list holds every employee with active_task_count 0 and no tasks.         *)
(***************************************************************************)
C18_ListsFollowCurrentState ==
    /\ IsImportantResponse
       => \A t \in TaskKeys :
             (\/ t \notin DOMAIN tasks
              \/ tasks[t].status # "new"
              \/ tasks[t].parent_task = None
              \/ tasks[tasks[t].parent_task].status # "in_progress")
             => t \notin Listed
    /\ (IsBusyResponse /\ DOMAIN tasks = {})
       => /\ response.status = 200
          /\ {response.data[i].id : i \in DOMAIN response.data} = DOMAIN employees
          /\ \A i \in DOMAIN response.data :
                /\ response.data[i].active_task_count = 0
                /\ response.data[i].tasks = <<>>

C18_Witness ==
    /\ IsImportantResponse
    /\ DOMAIN tasks = {1, 2, 3}
    /\ tasks[1].status = "in_progress"
    /\ tasks[2].status = "completed"
    /\ tasks[2].parent_task = 1
    /\ tasks[3].status = "new"
    /\ tasks[3].parent_task = 1
    /\ Listed = {3}

(***************************************************************************)
(* C19: two employees of the busy-employees list with the same number of    *)
(* active tasks and the same earliest active due date, or with no active    *)
(* task both, are listed in the order of their primary keys, the order in   *)
(* which the employees are enumerated.                                      *)
(***************************************************************************)
C19_TiesKeepEnumerationOrder ==
    (IsBusyResponse /\ response.status = 200) =>
        \A i, j \in DOMAIN response.data :
            LET e == response.data[i].id
                f == response.data[j].id
            IN (/\ i < j
                /\ ActiveCount(e) = ActiveCount(f)
                /\ ~HasEarlier(e, f)
                /\ ~HasEarlier(f, e))
               => e < f

C19_Witness ==
    /\ IsBusyResponse
    /\ response.status = 200
    /\ Len(response.data) = 3
    /\ response.data[1].id = 2
    /\ response.data[2].id = 3
    /\ response.data[3].id = 1
    /\ ActiveCount(2) = 1
    /\ ActiveCount(3) = 1
    /\ ~HasEarlier(2, 3)
    /\ ~HasEarlier(3, 2)

(***************************************************************************)
(* SpecCycle: tasks are created with no parent or an existing one and       *)
(* patched to have any primary key as parent, that of the task itself and   *)
(* that of no task included.                                                *)
(***************************************************************************)
CycleTaskBodies ==
    {TaskBody(Supplied(TaskName), p, Omitted, Supplied(StartDay), Omitted) :
        p \in Opt(DOMAIN tasks)}

ParentPatches ==
    {TaskBody(Omitted, Supplied(p), Omitted, Omitted, Omitted) : p \in TaskKeys}

NextCycle ==
    \/ TaskCreate(CycleTaskBodies)
    \/ TaskUpdate(TaskKeys, ParentPatches, {TRUE})

SpecCycle == Init /\ [][NextCycle]_vars

(***************************************************************************)
(* Following parent_task from the parent of t leads back to t.              *)
(***************************************************************************)
OnCycle(t) ==
    LeadsTo(tasks, tasks[t].parent_task, t, Cardinality(DOMAIN tasks))

(***************************************************************************)
(* C20: an update of an existing task that supplies an existing task as     *)
(* parent_task is answered 200 and stores that parent, whether the parent   *)
(* is another task, the task itself or one of its descendants; the other    *)
(* tasks keep their parents.                                                *)
(***************************************************************************)
C20_ParentCycleAccepted ==
    [][(/\ request'.view = "TaskUpdate"
        /\ request'.pk \in DOMAIN tasks
        /\ request'.data.parent_task # Omitted
        /\ request'.data.parent_task[1] \in DOMAIN tasks)
       => /\ response'.status = 200
          /\ tasks'[request'.pk].parent_task = request'.data.parent_task[1]
          /\ \A t \in DOMAIN tasks \ {request'.pk} : tasks'[t] = tasks[t]
          /\ DOMAIN tasks' = DOMAIN tasks]_vars

C20_Witness ==
    /\ request.view = "TaskUpdate"
    /\ response.status = 200
    /\ DOMAIN tasks = {1, 2, 3}
    /\ tasks[1].parent_task = 3
    /\ tasks[2].parent_task = 1
    /\ tasks[3].parent_task = 2
    /\ \A t \in DOMAIN tasks : OnCycle(t)

(***************************************************************************)
(* C21: in the potential_employees of an important task no label occurs     *)
(* twice, there are as many labels as employees that have one of them, the  *)
(* labels are in the order of the employees' primary keys, and two          *)
(* different employees with the same last, first and middle name whose      *)
(* total task count is the minimum are both there, under different labels.  *)
(***************************************************************************)
SameNames(e, f) ==
    /\ employees[e].last_name = employees[f].last_name
    /\ employees[e].first_name = employees[f].first_name
    /\ employees[e].middle_name = employees[f].middle_name

C21_EachEligibleOnceByIdentity ==
    IsImportantResponse =>
        \A i \in DOMAIN response.data :
            LET labels == response.data[i].potential_employees
            IN /\ \A a, b \in DOMAIN labels : labels[a] = labels[b] => a = b
               /\ Len(labels)
                    = Cardinality({e \in DOMAIN employees : IsListedFor(e, i)})
               /\ \A a, b \in DOMAIN labels :
                     a < b => \E e, f \in DOMAIN employees :
                                 /\ e < f
                                 /\ employee_name(employees, e) = labels[a]
                                 /\ employee_name(employees, f) = labels[b]
               /\ \A e, f \in DOMAIN employees :
                     (e # f /\ SameNames(e, f) /\ IsMinCount(e) /\ IsMinCount(f))
                     => /\ IsListedFor(e, i)
                        /\ IsListedFor(f, i)
                        /\ employee_name(employees, e) # employee_name(employees, f)

C21_Witness ==
    /\ IsImportantResponse
    /\ DOMAIN employees = {1, 2, 3}
    /\ SameNames(1, 3)
    /\ TotalCount(2) = 1
    /\ \E i \in DOMAIN response.data :
          response.data[i].potential_employees
             = <<employee_name(employees, 1), employee_name(employees, 3)>>

(***************************************************************************)
(* SpecPatch: tasks are created, the first task is updated with PATCH       *)
(* requests that supply any subset of name, parent_task (the first task),   *)
(* due_date and status, valid or not, and the calendar advances.            *)
(***************************************************************************)
PatchTaskBodies ==
    {TaskBody(n, p, Omitted, d, st) :
        n \in Opt({<<"u">>}), p \in Opt({1}),
        d \in Opt(ValDays), st \in Opt({"in_progress", "archived"})}

NextPatch ==
    \/ TaskCreate(DetailTaskBodies)
    \/ TaskUpdate(ValidatedKeys, PatchTaskBodies, {TRUE})
    \/ Midnight

SpecPatch == Init /\ [][NextPatch]_vars

TaskFields == {"name", "parent_task", "assigned_to", "due_date", "status"}

SuppliedFieldsValid(data) ==
    /\ data.parent_task # Omitted => data.parent_task[1] \in DOMAIN tasks
    /\ data.due_date # Omitted => data.due_date[1] >= today
    /\ data.status # Omitted => data.status[1] \in STATUS_CHOICES

(***************************************************************************)
(* C22: a PATCH of an existing task whose supplied fields are all valid is  *)
(* answered 200, whatever the stored due date, and leaves the task with     *)
(* the supplied value in every supplied field and the former value in       *)
(* every other field; a PATCH with an invalid supplied field is answered    *)
(* 400; either way the other tasks are unchanged.                           *)
(***************************************************************************)
C22_PatchChangesSuppliedFieldsOnly ==
    [][(/\ today' = today
        /\ request'.view = "TaskUpdate"
        /\ request'.pk \in DOMAIN tasks)
       => LET data == request'.data
              pk   == request'.pk
          IN /\ DOMAIN tasks' = DOMAIN tasks
             /\ \A t \in DOMAIN tasks \ {pk} : tasks'[t] = tasks[t]
             /\ IF SuppliedFieldsValid(data)
                THEN /\ response'.status = 200
                     /\ \A f \in TaskFields :
                           tasks'[pk][f] = IF data[f] = Omitted THEN tasks[pk][f]
                                           ELSE data[f][1]
                ELSE /\ response'.status = 400
                     /\ tasks'[pk] = tasks[pk]]_vars

C22_Witness ==
    /\ request.view = "TaskUpdate"
    /\ request.data.name = Supplied(<<"u">>)
    /\ request.data.status = Supplied("in_progress")
    /\ request.data.due_date = Omitted
    /\ request.data.parent_task = Omitted
    /\ response.status = 200
    /\ request.pk \in DOMAIN tasks
    /\ tasks[request.pk].due_date < today
    /\ tasks[request.pk].name = <<"u">>
    /\ tasks[request.pk].status = "in_progress"
    /\ tasks[request.pk].parent_task # None
    /\ \E t \in DOMAIN tasks : tasks[t].name = TaskName /\ tasks[t].status = "new"

(***************************************************************************)
(* SpecIntegrity: the first employee is created, tasks are created and      *)
(* patched with the first or second task as parent and the first employee   *)
(* as assignee, whether or not these rows exist, and employees and tasks    *)
(* are deleted by any primary key.                                          *)
(***************************************************************************)
IntegrityTaskBodies ==
    {TaskBody(Supplied(TaskName), p, a, Supplied(StartDay), Omitted) :
        p \in Opt({1, 2}), a \in Opt({1})}

IntegrityTaskPatches ==
    {TaskBody(Omitted, Supplied(p), Omitted, Omitted, Omitted) : p \in {1, 2}}
    \cup {TaskBody(Omitted, Omitted, Supplied(1), Omitted, Omitted)}

NextIntegrity ==
    \/ (nextEmployeeId \in ValidatedKeys /\ EmployeeCreate(CrudEmployeeBodies))
    \/ EmployeeDestroy
    \/ TaskCreate(IntegrityTaskBodies)
    \/ TaskUpdate(TaskKeys, IntegrityTaskPatches, {TRUE})
    \/ TaskDestroy

SpecIntegrity == Init /\ [][NextIntegrity]_vars

(***************************************************************************)
(* C23: the parent_task of every task is null or the primary key of a task  *)
(* in the table, and its assigned_to is null or the primary key of an       *)
(* employee in the table.                                                   *)
(***************************************************************************)
C23_NoDanglingReference ==
    \A t \in DOMAIN tasks :
        /\ tasks[t].parent_task \in {None} \cup DOMAIN tasks
        /\ tasks[t].assigned_to \in {None} \cup DOMAIN employees

C23_Witness ==
    /\ request.view = "TaskDestroy"
    /\ request.pk = 1
    /\ response.status = 204
    /\ nextEmployeeId > 1
    /\ DOMAIN employees = {}
    /\ DOMAIN tasks = {2, 3}
    /\ tasks[2].parent_task = None
    /\ tasks[3].parent_task = 2
    /\ tasks[3].assigned_to = None

(***************************************************************************)
(* The busy-employees request query by query.  get_queryset reads the       *)
(* Employee table, then for each employee runs active_tasks.count() and     *)
(* iterates active_tasks, two queries, and sorts; the serializer then runs  *)
(* get_active_task_count and get_tasks, two queries, for each employee of   *)
(* the sorted list.  The request runs in no transaction of its own, so      *)
(* what other clients commit between two queries is seen by the second.     *)
(* The 'tasks' entry of employee_task_data is not read again and is left    *)
(* out of the rows.                                                         *)
(***************************************************************************)
get_active_task_count(T, e) == Len(ActiveTasks(T, e))

get_tasks_OfEveryone(T, e) ==
    Enumerate({t \in DOMAIN T : T[t].status \in ActiveStatuses})

get_tasks(T, e) == ActiveTasks(T, e)

BusyStart ==
    /\ busy.pc = "idle"
    /\ LET es == Enumerate(DOMAIN employees)
       IN IF es = <<>>
          THEN /\ request' = Request("BusyEmployeesList", None, <<>>)
               /\ response' = Response(200, <<>>)
               /\ busy' = NoBusyRequest(FALSE)
          ELSE /\ busy' = [pc |-> "collect", employees |-> es, i |-> 1,
                           count |-> <<>>, data |-> <<>>, out |-> <<>>,
                           overtaken |-> FALSE]
               /\ UNCHANGED <<request, response>>
    /\ UNCHANGED <<db, today>>

BusyCollectCount ==
    /\ busy.pc = "collect"
    /\ busy.count = <<>>
    /\ busy' = [busy EXCEPT
                  !.count = <<Len(ActiveTasks(tasks, busy.employees[busy.i]))>>]
    /\ UNCHANGED <<db, today, request, response>>

BusyCollectIterate ==
    /\ busy.pc = "collect"
    /\ busy.count # <<>>
    /\ LET e    == busy.employees[busy.i]
           row  == [employee          |-> e,
                    active_task_count |-> busy.count[1],
                    earliest_due_date |->
                        EarliestDueDate(tasks, ActiveTasks(tasks, e), None)]
           data == Append(busy.data, row)
           r    == SortedFrom([error |-> FALSE, list |-> <<>>], data)
       IN IF busy.i < Len(busy.employees)
          THEN /\ busy' = [busy EXCEPT !.i = @ + 1, !.count = <<>>, !.data = data]
               /\ UNCHANGED <<request, response>>
          ELSE IF r.error
               THEN /\ request' = Request("BusyEmployeesList", None, <<>>)
                    /\ response' = Response(500, <<>>)
                    /\ busy' = NoBusyRequest(busy.overtaken)
               ELSE /\ busy' = [busy EXCEPT
                                  !.pc = "serialize",
                                  !.employees = [k \in 1..Len(r.list) |->
                                                    r.list[k].employee],
                                  !.i = 1, !.count = <<>>, !.data = <<>>]
                    /\ UNCHANGED <<request, response>>
    /\ UNCHANGED <<db, today>>

BusySerializeCount ==
    /\ busy.pc = "serialize"
    /\ busy.count = <<>>
    /\ busy' = [busy EXCEPT
                  !.count = <<get_active_task_count(tasks, busy.employees[busy.i])>>]
    /\ UNCHANGED <<db, today, request, response>>

BusySerializeTasks ==
    /\ busy.pc = "serialize"
    /\ busy.count # <<>>
    /\ LET e   == busy.employees[busy.i]
           out == Append(busy.out, [id                |-> e,
                                    active_task_count |-> busy.count[1],
                                    tasks             |-> get_tasks(tasks, e)])
       IN IF busy.i < Len(busy.employees)
          THEN /\ busy' = [busy EXCEPT !.i = @ + 1, !.count = <<>>, !.out = out]
               /\ UNCHANGED <<request, response>>
          ELSE /\ request' = Request("BusyEmployeesList", None, <<>>)
               /\ response' = Response(200, out)
               /\ busy' = NoBusyRequest(busy.overtaken)
    /\ UNCHANGED <<db, today>>

(***************************************************************************)
(* Another client's task create, update or delete, committed while the      *)
(* busy-employees request is between two queries: the tables change as in   *)
(* TaskCreate, TaskUpdate and TaskDestroy; the response goes to the other   *)
(* client.                                                                  *)
(***************************************************************************)
Overtaken(b) == IF b.pc = "idle" THEN b ELSE [b EXCEPT !.overtaken = TRUE]

ConcurrentTaskCreate(bodies) ==
    /\ nextTaskId <= MaxTasks
    /\ \E data \in bodies :
         /\ TaskSerializerErrors(data, FALSE) = {}
         /\ tasks' = Put(tasks, nextTaskId, NewTask(data))
    /\ nextTaskId' = nextTaskId + 1
    /\ busy' = Overtaken(busy)
    /\ UNCHANGED <<employees, nextEmployeeId, today, request, response>>

ConcurrentTaskUpdate(pks, bodies) ==
    /\ \E pk \in pks \cap DOMAIN tasks, data \in bodies :
         /\ TaskSerializerErrors(data, TRUE) = {}
         /\ tasks' = Put(tasks, pk, UpdatedTask(tasks[pk], data))
    /\ busy' = Overtaken(busy)
    /\ UNCHANGED <<employees, nextEmployeeId, nextTaskId, today, request, response>>

ConcurrentTaskDestroy ==
    /\ \E pk \in DOMAIN tasks : tasks' = TasksAfterTaskDelete(tasks, pk)
    /\ busy' = Overtaken(busy)
    /\ UNCHANGED <<employees, nextEmployeeId, nextTaskId, today, request, response>>

(***************************************************************************)
(* SpecInterleaved: the first two employees are created, and one client's   *)
(* busy-employees request runs query by query while other clients create    *)
(* tasks, new and assigned to an existing employee, complete the first      *)
(* task with PATCH, and delete tasks.                                       *)
(***************************************************************************)
InterleavedTaskPatches ==
    {TaskBody(Omitted, Omitted, Omitted, Omitted, Supplied("completed"))}

InterleavedTaskBodies ==
    {TaskBody(Supplied(TaskName), Omitted, Supplied(a), Supplied(StartDay), Omitted) :
        a \in DOMAIN employees}

NextInterleaved ==
    \/ (/\ busy.pc = "idle"
        /\ nextEmployeeId \in Assignable
        /\ EmployeeCreate(CrudEmployeeBodies))
    \/ ConcurrentTaskCreate(InterleavedTaskBodies)
    \/ ConcurrentTaskUpdate(ValidatedKeys, InterleavedTaskPatches)
    \/ ConcurrentTaskDestroy
    \/ BusyStart
    \/ BusyCollectCount
    \/ BusyCollectIterate
    \/ BusySerializeCount
    \/ BusySerializeTasks

SpecInterleaved == Init /\ [][NextInterleaved]_vars

(***************************************************************************)
(* C24 as stated: in the employee_task_data of a busy-employees request     *)
(* the earliest_due_date is None exactly when the active_task_count is 0,   *)
(* and the sort never fails on a date compared with the string.             *)
(***************************************************************************)
C24_NoDateIffNoActiveTask ==
    /\ busy.pc = "collect" =>
          \A k \in DOMAIN busy.data :
              busy.data[k].earliest_due_date = None
                 <=> busy.data[k].active_task_count = 0
    /\ IsBusyResponse => response.status # 500

(***************************************************************************)
(* SpecEligible: employees and tasks are created and the important-tasks    *)
(* list is requested.  The first task is in progress and the later ones are *)
(* new; a task has no parent or one of the first two tasks as parent, and   *)
(* no assignee or one of the first two employees.                           *)
(***************************************************************************)
ParentKeys == {1, 2}

EligibleTaskBodies ==
    {TaskBody(Supplied(TaskName), p, a, Supplied(StartDay),
              IF nextTaskId = 1 THEN Supplied("in_progress") ELSE Omitted) :
        p \in Opt(ParentKeys \cap DOMAIN tasks),
        a \in Opt(Assignable \cap DOMAIN employees)}

NextEligible ==
    \/ EmployeeCreate(CrudEmployeeBodies)
    \/ TaskCreate(EligibleTaskBodies)
    \/ ImportantTasks

SpecEligible == Init /\ [][NextEligible]_vars

(***************************************************************************)
(* C25: whenever at least one employee exists, the potential_employees of   *)
(* every important task is non-empty and holds every employee whose total   *)
(* task count is the minimum, and no employee whose count is more than 2    *)
(* above the minimum is in it.                                              *)
(***************************************************************************)
C25_MinimumListedFarAboveNot ==
    (IsImportantResponse /\ DOMAIN employees # {}) =>
        \A i \in DOMAIN response.data :
            /\ response.data[i].potential_employees # <<>>
            /\ \A e \in DOMAIN employees :
                  /\ IsMinCount(e) => IsListedFor(e, i)
                  /\ ~WithinTwoOfMin(e) => ~IsListedFor(e, i)

C25_Witness ==
    /\ IsImportantResponse
    /\ response.data # <<>>
    /\ \E e, f \in DOMAIN employees :
          /\ TotalCount(e) = 0
          /\ TotalCount(f) = 3
          /\ \A i \in DOMAIN response.data :
                /\ IsListedFor(e, i)
                /\ ~IsListedFor(f, i)
                /\ parent_task_employee(tasks, response.data[i].id, f)

(***************************************************************************)
(* C26 as stated: in a busy-employees response the active_task_count        *)
(* values do not increase along the list and each is the length of the      *)
(* task list next to it, whatever other clients did during the request.     *)
(***************************************************************************)
CountsOrderedAndMatchTasks ==
    /\ \A i, j \in DOMAIN response.data :
          i < j => response.data[i].active_task_count
                      >= response.data[j].active_task_count
    /\ \A i \in DOMAIN response.data :
          response.data[i].active_task_count = Len(response.data[i].tasks)

====
